---- MODULE Spec2Model ----
(***************************************************************************)
(* Page controller of the Military Essentials site (src/script.js):        *)
(* section navigation with history and a persisted preference, the         *)
(* slide-out sidebar with its deferred focus timers and focus trap, and    *)
(* the contact form's submission pipeline.                                 *)
(*                                                                         *)
(* JavaScript strings are modelled as sequences of tokens: the token "#"   *)
(* and identifier tokens.  A JavaScript value that may be null is a record *)
(* [isNull, s].                                                            *)
(***************************************************************************)
EXTENDS Naturals, Sequences, FiniteSets, TLC

VARIABLES
    phase,            \* "loading" until initPage has run, then "ready"
    currentSection,   \* state.currentSection
    isSidebarOpen,    \* state.isSidebarOpen
    activeClass,      \* ids of the elements carrying the CSS class 'active'
    title,            \* document.title
    hash,             \* window.location.hash ("" when absent)
    stored,           \* localStorage['currentSection']
    storeOK,          \* FALSE when localStorage access throws
    timers,           \* pending 100 ms setTimeout callbacks, in scheduling order
    removeFocusTrap,  \* the module-level release handle: 0 (null) or a listener id
    listeners,        \* keydown listeners installed on the sidebar by trapFocus
    releaseCount,     \* how often each listener's release function was invoked
    fields,           \* the values of the contact form's four validated fields
    errors,           \* the text of each field's error element
    btnDisabled,      \* submitBtn.disabled
    btnLoading,       \* submitBtn carries the class 'loading'
    pending,          \* submissions awaiting the remote call, oldest first
    status,           \* the formStatus element: displayed or not, and its type
    hideTimers,       \* pending 5 s timers that hide the status element
    faq,              \* the aria-expanded attribute of each FAQ question
    fx,               \* side effects requested by the last handler
    last,             \* the last handler that ran, with its argument
    trace             \* the sidebar operations and timer callbacks run so far

navVars == <<phase, currentSection, activeClass, title, hash, stored, storeOK>>
sidebarVars == <<isSidebarOpen, timers, removeFocusTrap, listeners, releaseCount>>
formVars == <<fields, errors, btnDisabled, btnLoading, pending, status, hideTimers>>
vars == <<navVars, sidebarVars, formVars, faq, fx, last, trace>>

----------------------------------------------------------------------------
(* JavaScript values *)

Null == [isNull |-> TRUE, s |-> <<>>]
Str(toks) == [isNull |-> FALSE, s |-> toks]

\* !v for a string-or-null value: null and '' are falsy
Truthy(v) == ~v.isNull /\ v.s # <<>>

\* v.startsWith('#')
StartsWithHash(v) == Len(v.s) >= 1 /\ v.s[1] = "#"

\* v.substring(1)
Substring1(v) == Tail(v.s)

----------------------------------------------------------------------------
(* The document *)

\* the Section Registry: the keys of getSectionName / updateDocumentTitle
Sections == {"home", "contact", "faq", "tos", "privacy"}

\* an element of the page that has an id and is not a section
NonSectionIds == {"sidebar"}

DomIds == Sections \cup NonSectionIds

NoElement == "(null)"

\* document.getElementById(id): any element of the page with that id
GetElementById(id) ==
    IF Len(id) = 1 /\ id[1] \in DomIds THEN id[1] ELSE NoElement

BaseTitle == "Military Essentials - Discord Bot Hosting"
HtmlTitle == "(title of the markup)"

updateDocumentTitle(sectionId) ==
    CASE sectionId = "home"    -> BaseTitle
      [] sectionId = "contact" -> "Contact Us - Military Essentials"
      [] sectionId = "faq"     -> "FAQ - Military Essentials"
      [] sectionId = "tos"     -> "Terms of Service - Military Essentials"
      [] sectionId = "privacy" -> "Privacy Policy - Military Essentials"
      [] OTHER                 -> BaseTitle

getSectionName(sectionId) ==
    CASE sectionId = "home"    -> "Home"
      [] sectionId = "contact" -> "Contact Us"
      [] sectionId = "faq"     -> "Frequently Asked Questions"
      [] sectionId = "tos"     -> "Terms of Service"
      [] sectionId = "privacy" -> "Privacy Policy"
      [] OTHER                 -> sectionId

----------------------------------------------------------------------------
(* Bounds and input sets *)

MaxTimers == 2      \* pending 100 ms timers
MaxListeners == 2   \* keydown listeners installed at once

SectionTarget(sec) == Str(<<"#", sec>>)

\* values of window.location.hash
Fragments ==
    {<<>>} \cup {<<"#", sec>> : sec \in Sections}
           \cup {<<"#", "bogus">>, <<"#", "sidebar">>}

\* arguments of a direct showSection call
Targets ==
    {Null, Str(<<>>), Str(<<"faq">>), Str(<<"#">>), Str(<<"#", "#", "faq">>)}
        \cup {Str(f) : f \in Fragments \ {<<>>}}

\* href attributes of the sidebar links
LinkHrefs == {SectionTarget(sec) : sec \in Sections}

\* what localStorage can hold under the key: nothing, or an id written earlier
StoredValues == {Null} \cup {Str(<<id>>) : id \in DomIds}

FieldIds == {"name", "email", "subject", "message"}
NoError == <<>>

MaxQuestions == 5   \* elements of class 'faq-question' in the markup

\* document.querySelectorAll('.faq-question')
Questions == 1..MaxQuestions

----------------------------------------------------------------------------
(* The handlers compute on a record of the mutable page state *)

Page ==
    [currentSection |-> currentSection, isSidebarOpen |-> isSidebarOpen,
     activeClass |-> activeClass, title |-> title, hash |-> hash,
     stored |-> stored, timers |-> timers, removeFocusTrap |-> removeFocusTrap,
     listeners |-> listeners, releaseCount |-> releaseCount, fx |-> {}]

Apply(p) ==
    /\ currentSection' = p.currentSection
    /\ isSidebarOpen' = p.isSidebarOpen
    /\ activeClass' = p.activeClass
    /\ title' = p.title
    /\ hash' = p.hash
    /\ stored' = p.stored
    /\ timers' = p.timers
    /\ removeFocusTrap' = p.removeFocusTrap
    /\ listeners' = p.listeners
    /\ releaseCount' = p.releaseCount
    /\ fx' = p.fx

Emit(p, e) == [p EXCEPT !.fx = @ \cup {e}]

\* saveCurrentSection that writes nothing
saveCurrentSection_NoWrite(p, sectionId) ==
    IF storeOK THEN Emit(p, "setItem") ELSE Emit(p, "warn")

\* saveCurrentSection without its try/catch: the exception of setItem escapes
saveCurrentSection_NoCatch(p, sectionId) ==
    IF storeOK
    THEN Emit([p EXCEPT !.stored = Str(<<sectionId>>)], "setItem")
    ELSE Emit(p, "throw")

\* saveCurrentSection: setItem inside try/catch
saveCurrentSection(p, sectionId) ==
    IF storeOK
    THEN Emit([p EXCEPT !.stored = Str(<<sectionId>>)], "setItem")
    ELSE Emit(p, "warn")

\* loadSavedSection: getItem inside try/catch
loadSavedSection == IF storeOK THEN stored ELSE Null

\* openSidebar with its guard on state.isSidebarOpen left out
openSidebar_NoGuard(p) ==
    Emit([p EXCEPT !.isSidebarOpen = TRUE,
                   !.activeClass = @ \cup {"sidebar"},
                   !.timers = Append(@, "openFocus")],
         "announce:Navigation menu opened")

\* openSidebar
openSidebar(p) ==
    IF p.isSidebarOpen THEN p
    ELSE Emit([p EXCEPT !.isSidebarOpen = TRUE,
                        !.activeClass = @ \cup {"sidebar"},
                        !.timers = Append(@, "openFocus")],
              "announce:Navigation menu opened")

\* the release function trapFocus returned: removeEventListener
Release(p, id) ==
    [p EXCEPT !.listeners = @ \ {id},
              !.releaseCount[id] = @ + 1]

\* closeSidebar
closeSidebar(p) ==
    IF ~p.isSidebarOpen THEN p
    ELSE LET q == [p EXCEPT !.isSidebarOpen = FALSE,
                            !.activeClass = @ \ {"sidebar"},
                            !.timers = Append(@, "closeFocus")]
             r == IF q.removeFocusTrap # 0
                  THEN [Release(q, q.removeFocusTrap) EXCEPT !.removeFocusTrap = 0]
                  ELSE q
         IN Emit(r, "announce:Navigation menu closed")

\* toggleSidebar
toggleSidebar(p) == IF p.isSidebarOpen THEN closeSidebar(p) ELSE openSidebar(p)

\* the loop over elements.sections that removes the class 'active', left out
HideAllSections_Skipped(active) == active

\* elements.sections.forEach: remove the class 'active' from every section
HideAllSections(active) == active \ Sections

\* the branch for the current section returning without closing the sidebar
SameSection_NoClose(p) == p

\* the branch of showSection for a target that is the current section
SameSection(p) == closeSidebar(p)

\* showSection
showSection(p, targetId) ==
    IF ~Truthy(targetId) \/ ~StartsWithHash(targetId)
    THEN Emit(p, "error:Invalid section ID")
    ELSE LET sectionId == Substring1(targetId)
             targetSection == GetElementById(sectionId)
         IN IF targetSection = NoElement
            THEN Emit(p, "error:Section not found")
            ELSE IF p.currentSection = targetSection
            THEN SameSection(p)
            ELSE LET q == [p EXCEPT
                             !.activeClass = HideAllSections(@) \cup {targetSection},
                             !.currentSection = targetSection]
                     r == saveCurrentSection(q, targetSection)
                     t == [r EXCEPT !.title = updateDocumentTitle(targetSection)]
                 IN IF "throw" \in r.fx
                    THEN r   \* an exception ends the handler here
                    ELSE [t EXCEPT !.fx = @ \cup {"scrollTo", "title",
                                                  "announce:Navigated to"}]

\* the history call left out
SetUrl_Skipped(p, targetId, how) == p

\* history.pushState / replaceState(null, '', url): the fragment of the URL changes
SetUrl(p, targetId, how) ==
    Emit([p EXCEPT !.hash = IF targetId.isNull THEN <<"null">> ELSE targetId.s], how)

----------------------------------------------------------------------------
(* Initial state: the script has run, initPage has not *)

Init ==
    /\ phase = "loading"
    /\ currentSection = "home"
    /\ isSidebarOpen = FALSE
    /\ activeClass = {"home"}
    /\ title = HtmlTitle
    /\ hash \in Fragments
    /\ stored \in StoredValues
    /\ storeOK \in BOOLEAN
    /\ timers = <<>>
    /\ removeFocusTrap = 0
    /\ listeners = {}
    /\ releaseCount = [id \in 1..(MaxListeners + 1) |-> 0]
    /\ fields = [f \in FieldIds |-> <<>>]
    /\ errors = [f \in FieldIds |-> NoError]
    /\ btnDisabled = FALSE
    /\ btnLoading = FALSE
    /\ pending = <<>>
    /\ status = [displayed |-> FALSE, type |-> "none"]
    /\ hideTimers = <<>>
    /\ faq = [q \in Questions |-> "false"]
    /\ fx = {}
    /\ last = [op |-> "load", arg |-> Null]
    /\ trace = <<>>

\* room for the timer a handler may schedule
TimerRoom == Len(timers) < MaxTimers

\* initPage with the stored preference consulted before the fragment
InitialTarget_PreferenceFirst(h, savedSection) ==
    IF Truthy(savedSection) THEN Str(<<"#">> \o savedSection.s)
    ELSE IF h # <<>> THEN Str(h)
    ELSE SectionTarget("home")

\* initPage: the target of the first showSection call
InitialTarget(h, savedSection) ==
    IF h # <<>> THEN Str(h)
    ELSE IF Truthy(savedSection) THEN Str(<<"#">> \o savedSection.s)
    ELSE SectionTarget("home")

\* initPage: resolve the initial section
InitPage ==
    /\ phase = "loading"
    /\ phase' = "ready"
    /\ LET savedSection == loadSavedSection
           target == InitialTarget(hash, savedSection)
           p == Emit(Page, IF storeOK THEN "getItem" ELSE "warn:getItem")
       IN IF hash = <<>> /\ Truthy(savedSection)
          THEN Apply(SetUrl(showSection(p, target), target, "replaceState"))
          ELSE Apply(showSection(p, target))
    /\ last' = [op |-> "initPage", arg |-> Str(hash)]
    /\ UNCHANGED <<storeOK, formVars, faq, trace>>

\* window.MilitaryEssentials.showSection(targetId)
ShowSectionCall(targetId) ==
    /\ phase = "ready"
    /\ TimerRoom
    /\ Apply(showSection(Page, targetId))
    /\ last' = [op |-> "showSection", arg |-> targetId]
    /\ UNCHANGED <<phase, storeOK, formVars, faq, trace>>

\* click on a sidebar link
LinkClick(targetId) ==
    /\ phase = "ready"
    /\ TimerRoom
    /\ Apply(SetUrl(closeSidebar(showSection(Page, targetId)), targetId, "pushState"))
    /\ last' = [op |-> "linkClick", arg |-> targetId]
    /\ UNCHANGED <<phase, storeOK, formVars, faq, trace>>

\* handlePopState resolving an absent fragment from the stored preference
PopStateTarget_Preference(h) ==
    IF h # <<>> THEN Str(h)
    ELSE IF Truthy(loadSavedSection) THEN Str(<<"#">> \o loadSavedSection.s)
    ELSE SectionTarget("home")

\* handlePopState: window.location.hash || '#home'
PopStateTarget(h) == IF h # <<>> THEN Str(h) ELSE SectionTarget("home")

\* handlePopState: the browser has moved to an entry whose fragment is h
PopState(h) ==
    /\ phase = "ready"
    /\ TimerRoom
    /\ LET p == [Page EXCEPT !.hash = h]
       IN Apply(showSection(p, PopStateTarget(h)))
    /\ last' = [op |-> "popstate", arg |-> Str(h)]
    /\ UNCHANGED <<phase, storeOK, formVars, faq, trace>>

\* the number of pending timers that will install a focus trap
RECURSIVE CountOpenFocus(_)
CountOpenFocus(ts) ==
    IF ts = <<>> THEN 0
    ELSE (IF Head(ts) = "openFocus" THEN 1 ELSE 0) + CountOpenFocus(Tail(ts))

\* room for the listener an opening may come to install
OpenRoom ==
    isSidebarOpen \/ Cardinality(listeners) + CountOpenFocus(timers) < MaxListeners

MaxTrace == 4       \* recorded sidebar operations

Overflow == <<"...">>

\* the record of the operations run so far, kept up to MaxTrace entries
Logged(log, name) ==
    trace' = IF ~log THEN trace
             ELSE IF trace # Overflow /\ Len(trace) < MaxTrace THEN Append(trace, name)
             ELSE Overflow

\* window.MilitaryEssentials.openSidebar()
OpenSidebarCall(log) ==
    /\ phase = "ready"
    /\ TimerRoom /\ OpenRoom
    /\ Apply(openSidebar(Page))
    /\ last' = [op |-> "openSidebar", arg |-> Null]
    /\ Logged(log, "openSidebar")
    /\ UNCHANGED <<phase, storeOK, formVars, faq>>

\* click on the close control or the overlay, window.MilitaryEssentials.closeSidebar()
CloseSidebarCall(log) ==
    /\ phase = "ready"
    /\ TimerRoom
    /\ Apply(closeSidebar(Page))
    /\ last' = [op |-> "closeSidebar", arg |-> Null]
    /\ Logged(log, "closeSidebar")
    /\ UNCHANGED <<phase, storeOK, formVars, faq>>

\* click on the hamburger control
ToggleClick(log) ==
    /\ phase = "ready"
    /\ TimerRoom /\ OpenRoom
    /\ Apply(toggleSidebar(Page))
    /\ last' = [op |-> "toggleSidebar", arg |-> Null]
    /\ Logged(log, "toggleSidebar")
    /\ UNCHANGED <<phase, storeOK, formVars, faq>>

\* handleKeyboardShortcuts
Keys == {"Escape", "ctrl+k", "Tab"}

handleKeyboardShortcuts(p, key) ==
    LET q == IF key = "Escape" /\ p.isSidebarOpen THEN closeSidebar(p) ELSE p
    IN IF key = "ctrl+k" THEN toggleSidebar(q) ELSE q

KeyDown(key, log) ==
    /\ phase = "ready"
    /\ TimerRoom /\ OpenRoom
    /\ Apply(handleKeyboardShortcuts(Page, key))
    /\ last' = [op |-> "keydown", arg |-> Str(<<key>>)]
    /\ Logged(log, "keydown")
    /\ UNCHANGED <<phase, storeOK, formVars, faq>>

\* trapFocus(elements.sidebar): a new keydown listener, and its release handle
FreshListener(p) == CHOOSE id \in 1..(MaxListeners + 1) : id \notin p.listeners

trapFocus(p) ==
    LET id == FreshListener(p)
    IN [p EXCEPT !.listeners = @ \cup {id},
                 !.releaseCount[id] = 0,
                 !.removeFocusTrap = id]

\* the callback openSidebar deferred by 100 ms
OpenFocusCallback(p) == trapFocus(Emit(p, "focus:sidebarClose"))

\* the callback closeSidebar deferred by 100 ms
CloseFocusCallback(p) == Emit(p, "focus:hamburgerMenu")

\* the oldest pending 100 ms timer fires
FireTimer(log) ==
    /\ timers # <<>>
    /\ LET p == [Page EXCEPT !.timers = Tail(@)]
       IN IF Head(timers) = "openFocus"
          THEN Apply(OpenFocusCallback(p))
          ELSE Apply(CloseFocusCallback(p))
    /\ last' = [op |-> "timer", arg |-> Str(<<Head(timers)>>)]
    /\ Logged(log, "timer")
    /\ UNCHANGED <<phase, storeOK, formVars, faq>>

----------------------------------------------------------------------------
(* Contact form: field values are sequences of characters *)

MaxPending == 2     \* submissions in flight plus pending hide timers

\* String.prototype.trim over the characters the model uses
RECURSIVE TrimLeft(_)
TrimLeft(v) == IF v # <<>> /\ Head(v) = " " THEN TrimLeft(Tail(v)) ELSE v

RECURSIVE TrimRight(_)
TrimRight(v) ==
    IF v # <<>> /\ v[Len(v)] = " " THEN TrimRight(SubSeq(v, 1, Len(v) - 1)) ELSE v

Trim(v) == TrimRight(TrimLeft(v))

\* isValidEmail with a pattern that asks for no dot after the '@'
isValidEmail_NoDot(email) ==
    \E i \in 1..Len(email) :
        /\ 1 < i /\ i < Len(email)
        /\ email[i] = "@"
        /\ \A k \in (1..Len(email)) \ {i} : email[k] \notin {" ", "@"}

\* isValidEmail: /^[^\s@]+@[^\s@]+\.[^\s@]+$/
isValidEmail(email) ==
    \E i \in 1..Len(email), j \in 1..Len(email) :
        /\ 1 < i /\ i + 1 < j /\ j < Len(email)
        /\ email[i] = "@"
        /\ email[j] = "."
        /\ \A k \in (1..Len(email)) \ {i} : email[k] \notin {" ", "@"}

\* the fieldName validateForm passes for each field
FieldName(f) ==
    CASE f = "name"    -> "Name"
      [] f = "email"   -> "Email"
      [] f = "subject" -> "Subject"
      [] f = "message" -> "Message"

\* the validationType validateForm and the blur listener pass for each field
ValidationType(f) == IF f = "email" THEN "email" ELSE "required"

\* validateField: the result, and the error texts afterwards
validateField(errs, fieldId, fieldName, validationType) ==
    LET value == Trim(fields[fieldId])
    IN IF validationType = "required" /\ value = <<>>
       THEN [valid |-> FALSE,
             errors |-> [errs EXCEPT ![fieldId] = <<fieldName, " is required">>]]
       ELSE IF validationType = "email" /\ value # <<>> /\ ~isValidEmail(value)
       THEN [valid |-> FALSE,
             errors |-> [errs EXCEPT ![fieldId] = <<"Please enter a valid email address">>]]
       ELSE [valid |-> TRUE, errors |-> [errs EXCEPT ![fieldId] = NoError]]

\* validateForm: all four fields, in order
validateForm(errs) ==
    LET r1 == validateField(errs, "name", "Name", "required")
        r2 == validateField(r1.errors, "email", "Email", "email")
        r3 == validateField(r2.errors, "subject", "Subject", "required")
        r4 == validateField(r3.errors, "message", "Message", "required")
    IN [valid |-> r4.valid /\ (r3.valid /\ (r2.valid /\ (r1.valid /\ TRUE))),
        errors |-> r4.errors]

\* values a user types into a field
FieldValues(f) ==
    IF f = "email"
    THEN {<<>>, <<"a", "@", "b">>, <<"a", "@", "b", ".", "c">>}
    ELSE {<<>>, <<" ">>, <<"a">>}

\* the state of the page once initPage has run with no fragment and no preference
InitReady ==
    /\ phase = "ready"
    /\ currentSection = "home"
    /\ isSidebarOpen = FALSE
    /\ activeClass = {"home"}
    /\ title = HtmlTitle
    /\ hash = <<>>
    /\ stored = Null
    /\ storeOK = TRUE
    /\ timers = <<>>
    /\ removeFocusTrap = 0
    /\ listeners = {}
    /\ releaseCount = [id \in 1..(MaxListeners + 1) |-> 0]
    /\ fields = [f \in FieldIds |-> <<>>]
    /\ errors = [f \in FieldIds |-> NoError]
    /\ btnDisabled = FALSE
    /\ btnLoading = FALSE
    /\ pending = <<>>
    /\ status = [displayed |-> FALSE, type |-> "none"]
    /\ hideTimers = <<>>
    /\ faq = [q \in Questions |-> "false"]
    /\ fx = {}
    /\ last = [op |-> "initPage", arg |-> Str(<<>>)]
    /\ trace = <<>>

\* the 'input' listener: the user changes a field's value
SetField(f, v) ==
    /\ v # fields[f]
    /\ fields' = [fields EXCEPT ![f] = v]
    /\ errors' = [errors EXCEPT ![f] = NoError]
    /\ fx' = {}
    /\ last' = [op |-> "input", arg |-> Str(<<f>>)]
    /\ UNCHANGED <<btnDisabled, btnLoading, pending, status, hideTimers>>
    /\ UNCHANGED <<navVars, sidebarVars, faq, trace>>

\* the 'blur' listener
Blur(f) ==
    /\ errors' = validateField(errors, f, FieldName(f), ValidationType(f)).errors
    /\ fx' = {}
    /\ last' = [op |-> "blur", arg |-> Str(<<f>>)]
    /\ UNCHANGED <<fields, btnDisabled, btnLoading, pending, status, hideTimers>>
    /\ UNCHANGED <<navVars, sidebarVars, faq, trace>>

\* handleFormSubmit up to its await.  A submit event comes from the submit
\* control, which the browser ignores while it is disabled, or from a script
\* (form.requestSubmit(), a dispatched event), which no control gates.
HandleFormSubmit(via) ==
    /\ via = "control" => ~btnDisabled
    /\ Len(pending) + Len(hideTimers) < MaxPending
    /\ LET v == validateForm(errors)
       IN /\ errors' = v.errors
          /\ IF ~v.valid
             THEN /\ status' = [displayed |-> TRUE, type |-> "error"]
                  /\ fx' = {"announce:Please fix the errors above"}
                  /\ UNCHANGED <<btnDisabled, btnLoading, pending>>
             ELSE /\ btnDisabled' = TRUE
                  /\ btnLoading' = TRUE
                  /\ pending' = Append(pending, fields)
                  /\ fx' = {"submissionStarted"}
                  /\ UNCHANGED status
    /\ last' = [op |-> "submit", arg |-> Str(<<via>>)]
    /\ UNCHANGED <<fields, hideTimers>>
    /\ UNCHANGED <<navVars, sidebarVars, faq, trace>>

\* handleFormSubmit after its await: the oldest submission's 1500 ms timer has
\* fired.  gtag is a function of the page that may be absent, return or throw.
ResumeFormSubmit(gtag) ==
    /\ pending # <<>>
    /\ pending' = Tail(pending)
    /\ hideTimers' = Append([i \in 1..Len(hideTimers) |->
                                IF hideTimers[i] > 0 THEN hideTimers[i] - 1 ELSE 0],
                            Len(pending) - 1)
    /\ fields' = [f \in FieldIds |-> <<>>]
    /\ IF gtag = "throws"
       THEN /\ status' = [displayed |-> TRUE, type |-> "error"]
            /\ fx' = {"announce:Message sent successfully", "reset",
                      "announce:Failed to send message"}
       ELSE /\ status' = [displayed |-> TRUE, type |-> "success"]
            /\ fx' = {"announce:Message sent successfully", "reset"}
    /\ btnDisabled' = FALSE
    /\ btnLoading' = FALSE
    /\ last' = [op |-> "resume", arg |-> Str(<<gtag>>)]
    /\ UNCHANGED errors
    /\ UNCHANGED <<navVars, sidebarVars, faq, trace>>

\* the callback showFormStatus deferred by 5 s.  It was scheduled after the
\* submissions it counts were started, so their 1500 ms timers fire first.
HideStatus ==
    /\ hideTimers # <<>>
    /\ Head(hideTimers) = 0
    /\ hideTimers' = Tail(hideTimers)
    /\ status' = [status EXCEPT !.displayed = FALSE]
    /\ fx' = {}
    /\ last' = [op |-> "hideTimer", arg |-> Null]
    /\ UNCHANGED <<fields, errors, btnDisabled, btnLoading, pending>>
    /\ UNCHANGED <<navVars, sidebarVars, faq, trace>>

----------------------------------------------------------------------------
(* Field validation on its own, over all short values *)

MaxLen == 5         \* characters of a field value

Alphabet == {"a", "@", ".", " "}

\* the values named in the specification's examples
ExampleValues ==
    {<<"a", "@", "b", ".", "c", "o">>, <<"a", "@", "b">>,
     <<"a", "@", "@", "b", ".", "c", "o">>}

ValidateInputs ==
    UNION {[1..n -> Alphabet] : n \in 0..MaxLen} \cup ExampleValues

\* a ready page whose four fields all hold the same value
InitValidate ==
    /\ phase = "ready"
    /\ currentSection = "home"
    /\ isSidebarOpen = FALSE
    /\ activeClass = {"home"}
    /\ title = HtmlTitle
    /\ hash = <<>>
    /\ stored = Null
    /\ storeOK = TRUE
    /\ timers = <<>>
    /\ removeFocusTrap = 0
    /\ listeners = {}
    /\ releaseCount = [id \in 1..(MaxListeners + 1) |-> 0]
    /\ \E v \in ValidateInputs : fields = [f \in FieldIds |-> v]
    /\ errors = [f \in FieldIds |-> NoError]
    /\ btnDisabled = FALSE
    /\ btnLoading = FALSE
    /\ pending = <<>>
    /\ status = [displayed |-> FALSE, type |-> "none"]
    /\ hideTimers = <<>>
    /\ faq = [q \in Questions |-> "false"]
    /\ fx = {}
    /\ last = [op |-> "initPage", arg |-> Str(<<>>)]
    /\ trace = <<>>

NextValidate == \E f \in FieldIds : Blur(f)

SpecValidate == InitValidate /\ [][NextValidate]_vars

----------------------------------------------------------------------------
(* FAQ accordion *)

\* getAttribute returns null for an attribute the markup does not give
NoAttribute == "(no attribute)"

AttributeValues == {NoAttribute, "true", "false"}

\* setAttribute stores the string form of the boolean it is given
BooleanToString(b) == IF b THEN "true" ELSE "false"

\* the loop that sets aria-expanded to 'false' on every question, left out
CollapseAll_Skipped(f) == f

\* faqQuestions.forEach(q => q.setAttribute('aria-expanded', 'false'))
CollapseAll(f) == [q \in Questions |-> "false"]

\* the click listener of one question; its markup holds a span or not, and
\* querySelector('span').textContent throws when it does not
FaqClick(q, span) ==
    /\ phase = "ready"
    /\ LET isExpanded == faq[q] = "true"
       IN /\ faq' = [CollapseAll(faq) EXCEPT ![q] = BooleanToString(~isExpanded)]
          /\ fx' = IF ~span THEN {"throw"}
                   ELSE IF isExpanded THEN {"announce:Collapsed"}
                   ELSE {"announce:Expanded"}
    /\ last' = [op |-> "faqClick", arg |-> Str(<<ToString(q)>>)]
    /\ UNCHANGED <<navVars, sidebarVars, formVars, trace>>

\* a ready page; the script never initialises aria-expanded, so the
\* attributes are whatever the markup gives
InitFaq ==
    /\ phase = "ready"
    /\ currentSection = "home"
    /\ isSidebarOpen = FALSE
    /\ activeClass = {"home"}
    /\ title = HtmlTitle
    /\ hash = <<>>
    /\ stored = Null
    /\ storeOK = TRUE
    /\ timers = <<>>
    /\ removeFocusTrap = 0
    /\ listeners = {}
    /\ releaseCount = [id \in 1..(MaxListeners + 1) |-> 0]
    /\ fields = [f \in FieldIds |-> <<>>]
    /\ errors = [f \in FieldIds |-> NoError]
    /\ btnDisabled = FALSE
    /\ btnLoading = FALSE
    /\ pending = <<>>
    /\ status = [displayed |-> FALSE, type |-> "none"]
    /\ hideTimers = <<>>
    /\ faq \in [Questions -> AttributeValues]
    /\ fx = {}
    /\ last = [op |-> "initPage", arg |-> Str(<<>>)]
    /\ trace = <<>>

NextFaq == \E q \in Questions : \E span \in BOOLEAN : FaqClick(q, span)

SpecFaq == InitFaq /\ [][NextFaq]_vars

NextForm ==
    \/ \E f \in FieldIds : \E v \in FieldValues(f) : SetField(f, v)
    \/ \E f \in FieldIds : Blur(f)
    \/ \E via \in {"control", "script"} : HandleFormSubmit(via)
    \/ \E gtag \in {"absent", "returns", "throws"} : ResumeFormSubmit(gtag)
    \/ HideStatus

SpecForm == InitReady /\ [][NextForm]_vars

Next ==
    \/ InitPage
    \/ \E t \in Targets : ShowSectionCall(t)
    \/ \E t \in LinkHrefs : LinkClick(t)
    \/ \E h \in Fragments : PopState(h)
    \/ OpenSidebarCall(FALSE)
    \/ CloseSidebarCall(FALSE)
    \/ ToggleClick(FALSE)
    \/ \E key \in Keys : KeyDown(key, FALSE)
    \/ FireTimer(FALSE)

Spec == Init /\ [][Next]_vars

\* the sidebar on its own, from a page that is ready, with its operations recorded
NextSidebar ==
    \/ OpenSidebarCall(TRUE)
    \/ CloseSidebarCall(TRUE)
    \/ ToggleClick(TRUE)
    \/ \E key \in Keys : KeyDown(key, TRUE)
    \/ FireTimer(TRUE)

SpecSidebar == InitReady /\ [][NextSidebar]_vars

----------------------------------------------------------------------------
(* Properties *)

NavOps == {"showSection", "linkClick", "popstate"}

\* the target a navigation handler passed to showSection
TargetOf(l) ==
    IF l.op = "popstate" /\ l.arg.s = <<>> THEN SectionTarget("home") ELSE l.arg

\* the target is '#' followed by the identifier of a section of the Registry
NamesSection(t) ==
    ~t.isNull /\ Len(t.s) = 2 /\ t.s[1] = "#" /\ t.s[2] \in Sections

\* the sections marked active
ActiveSections == activeClass \cap Sections

\* C1: in every reachable state the current section is one of the five
\* sections of the Registry.
C1_SectionInRegistry == currentSection \in Sections

\* C2: a showSection call whose target is malformed or names no section of the
\* Registry leaves the current section, the active marking, the persisted
\* preference and the title as they were.
C2_RejectedTargetChangesNothing ==
    [][(last'.op = "showSection" /\ ~NamesSection(last'.arg))
         => /\ currentSection' = currentSection
            /\ ActiveSections' = ActiveSections
            /\ stored' = stored
            /\ title' = title]_vars

\* C3: after a navigation whose target is '#'+S for a section S of the
\* Registry, the current section is S and S is the only section marked active.
C3_GoToKnownSection ==
    \A sec \in Sections :
        (last.op \in NavOps /\ TargetOf(last) = SectionTarget(sec))
            => (currentSection = sec /\ ActiveSections = {sec})

\* showSection('#faq') from another section, with the sidebar open
W_C3 ==
    /\ last.op = "showSection" /\ last.arg = SectionTarget("faq")
    /\ currentSection = "faq" /\ "title" \in fx /\ isSidebarOpen

\* C4: initPage ends on the section the fragment names when a fragment is
\* present, otherwise on the section the readable stored preference names,
\* otherwise on home.
C4_StartupResolution ==
    [][(phase = "loading" /\ phase' = "ready")
         => /\ \A sec \in Sections :
                 /\ hash = <<"#", sec>> => currentSection' = sec
                 /\ (hash = <<>> /\ storeOK /\ stored = Str(<<sec>>))
                        => currentSection' = sec
            /\ (hash = <<>> /\ (~storeOK \/ stored = Null))
                   => currentSection' = "home"]_vars

\* startup without a fragment and with the preference 'tos' stored
W_C4 ==
    /\ last.op = "initPage" /\ last.arg = Str(<<>>)
    /\ currentSection = "tos" /\ stored = Str(<<"tos">>) /\ hash = <<"#", "tos">>

\* C5: a navigation whose target is the current section sets no title, does
\* not scroll, announces no navigation and does not write the preference, and
\* the sidebar is closed afterwards.
C5_SameSectionNoOp ==
    [][(last'.op \in NavOps /\ TargetOf(last') = SectionTarget(currentSection))
         => /\ fx' \cap {"title", "scrollTo", "announce:Navigated to",
                         "setItem", "warn"} = {}
            /\ title' = title
            /\ stored' = stored
            /\ ~isSidebarOpen']_vars

\* showSection of the current section has just closed an open sidebar
W_C5 ==
    /\ last.op = "showSection" /\ last.arg = SectionTarget(currentSection)
    /\ "announce:Navigation menu closed" \in fx
    /\ ~isSidebarOpen

\* C6: after a link click, a showSection call or a popstate that changed the
\* section, the sidebar is closed.
C6_NavigationClosesSidebar ==
    (last.op \in NavOps /\ "announce:Navigated to" \in fx) => ~isSidebarOpen

\* C7: at most one submission is in flight at any time.
C7_OneSubmissionInFlight == Len(pending) <= 1

\* C8: the submit control is disabled and busy while a submission is in
\* flight, and enabled and not busy when none is.
C8_ButtonFollowsSubmitting ==
    /\ pending # <<>> => (btnDisabled /\ btnLoading)
    /\ pending = <<>> => (~btnDisabled /\ ~btnLoading)

\* C9: at most one focus-trap listener is installed at any time, and none is
\* installed once the sidebar is closed with no timer pending.
C9_TrapReleased ==
    /\ Cardinality(listeners) <= 1
    /\ (~isSidebarOpen /\ timers = <<>>) => listeners = {}

\* C10: open and close are idempotent: an open of an open sidebar and a close
\* of a closed one change nothing; open, open ends Open with one trap (pending
\* or installed), open, close, close ends Closed; no release function is
\* invoked twice.
C10_After ==
    /\ trace = <<"openSidebar", "openSidebar">>
          => (isSidebarOpen /\ timers = <<"openFocus">> /\ listeners = {})
    /\ trace \in {<<"openSidebar", "openSidebar", "timer">>,
                  <<"openSidebar", "timer", "openSidebar">>}
          => (isSidebarOpen /\ timers = <<>> /\ Cardinality(listeners) = 1
              /\ removeFocusTrap \in listeners)
    /\ trace \in {<<"openSidebar", "closeSidebar", "closeSidebar">>,
                  <<"openSidebar", "timer", "closeSidebar", "closeSidebar">>}
          => ~isSidebarOpen
    /\ trace = <<"openSidebar", "timer", "closeSidebar", "closeSidebar">>
          => (listeners = {} /\ removeFocusTrap = 0)
    /\ \A id \in DOMAIN releaseCount : releaseCount[id] <= 1

C10_Idempotent ==
    [][/\ C10_After'
       /\ (last'.op = "openSidebar" /\ isSidebarOpen)
             => (isSidebarOpen' /\ UNCHANGED sidebarVars /\ fx' = {})
       /\ (last'.op = "closeSidebar" /\ ~isSidebarOpen)
             => (~isSidebarOpen' /\ UNCHANGED sidebarVars /\ fx' = {})]_vars

\* open, the timer, close, close: the trap was released once, by the first close
W_C10 ==
    /\ trace = <<"openSidebar", "timer", "closeSidebar", "closeSidebar">>
    /\ releaseCount[1] = 1
    /\ ~isSidebarOpen

\* C11: startup with a URL fragment present leaves the stored preference as
\* it was.
C11_StartupKeepsPreference ==
    [][(phase = "loading" /\ phase' = "ready" /\ hash # <<>>)
         => stored' = stored]_vars

\* the element a fragment names, home for an absent fragment
FragmentElement(h) ==
    IF h = <<>> THEN "home"
    ELSE IF Len(h) = 2 /\ h[1] = "#" /\ h[2] \in DomIds THEN h[2]
    ELSE NoElement

\* C12: a popstate resolves its target from the fragment alone, '#home' when
\* the fragment is absent, and does not read the preference store: the section
\* afterwards is the element the fragment names, or the section before when it
\* names none, whatever is stored.
C12_PopStateFromFragment ==
    [][last'.op = "popstate"
         => /\ currentSection' =
                  IF FragmentElement(hash') = NoElement THEN currentSection
                  ELSE FragmentElement(hash')
            /\ fx' \cap {"getItem", "warn:getItem"} = {}]_vars

\* a popstate without a fragment, handled on home while 'tos' is stored
W_C12 ==
    /\ last.op = "popstate" /\ last.arg = Str(<<>>)
    /\ storeOK /\ stored = Str(<<"tos">>)
    /\ currentSection = "home"

\* C13: when a submission ends with the failure message shown the form fields
\* are left as they were; the form is reset only when the attempt ends in
\* success; no submission is started again.
C13_FailureKeepsForm ==
    [][last'.op = "resume"
         => /\ status'.type = "error" => fields' = fields
            /\ "reset" \in fx' => status'.type = "success"
            /\ pending' = Tail(pending)]_vars

\* C14: a success message has a hide timer pending, and a failure message that
\* is displayed stays displayed until the next submission attempt: no timer and
\* no other event hides it.
C14_FailureMessagePersists ==
    [][/\ (last'.op = "resume" /\ status'.type = "success") => hideTimers' # <<>>
       /\ (status.displayed /\ status.type = "error"
             /\ last'.op \notin {"submit", "resume"})
            => (status'.displayed /\ status'.type = "error")]_vars

\* the fields whose trimmed value is empty
EmptyFields == {f \in FieldIds : Trim(fields[f]) = <<>>}

\* C15: whole-form validation evaluates every field: when three of the four
\* fields are empty a submit surfaces an error for each of the three and the
\* form is reported invalid (no submission starts).
C15_AllEmptyFieldsReported ==
    (last.op = "submit" /\ Cardinality(EmptyFields) = 3)
        => /\ \A f \in EmptyFields : errors[f] # NoError
           /\ "submissionStarted" \notin fx

\* the value consists of whitespace only
Blank(v) == \A i \in 1..Len(v) : v[i] = " "

\* one or more characters other than whitespace and '@', an '@', one or more
\* such characters, a '.', one or more such characters
MatchesPattern(v) ==
    \E a, b \in 1..Len(v) :
        /\ a < b
        /\ Len(SubSeq(v, 1, a - 1)) >= 1
        /\ v[a] = "@"
        /\ Len(SubSeq(v, a + 1, b - 1)) >= 1
        /\ v[b] = "."
        /\ Len(SubSeq(v, b + 1, Len(v))) >= 1
        /\ \A k \in 1..Len(v) : k # a => v[k] \notin {" ", "@"}

\* the field a blur validated, and its value
BlurField == last.arg.s[1]

\* C16 as stated: required mode is invalid, with '<field> is required', iff
\* the trimmed value is empty; email mode is invalid, with 'enter a valid
\* email', iff the value is non-empty and does not match the pattern.
C16_AsStated ==
    last.op = "blur" =>
        IF BlurField # "email"
        THEN errors[BlurField] =
                 IF Blank(fields[BlurField])
                 THEN <<FieldName(BlurField), " is required">> ELSE NoError
        ELSE errors[BlurField] =
                 IF fields[BlurField] # <<>> /\ ~MatchesPattern(fields[BlurField])
                 THEN <<"enter a valid email">> ELSE NoError

\* C16 amended: in email mode the trimmed value is what is tested, and the
\* message is 'Please enter a valid email address'; 'a@b.co' is valid, 'a@b'
\* and 'a@@b.co' are invalid, '' is valid in email mode.
C16_FieldValidation ==
    last.op = "blur" =>
        /\ IF BlurField # "email"
           THEN errors[BlurField] =
                    IF Blank(fields[BlurField])
                    THEN <<FieldName(BlurField), " is required">> ELSE NoError
           ELSE errors[BlurField] =
                    IF ~Blank(fields[BlurField])
                          /\ ~MatchesPattern(Trim(fields[BlurField]))
                    THEN <<"Please enter a valid email address">> ELSE NoError
        /\ BlurField = "email" =>
             /\ fields.email \in {<<>>, <<"a", "@", "b", ".", "c", "o">>}
                    => errors.email = NoError
             /\ fields.email \in {<<"a", "@", "b">>,
                                  <<"a", "@", "@", "b", ".", "c", "o">>}
                    => errors.email # NoError

\* the email field holding 'a@b' has been validated and rejected
W_C16 ==
    /\ last.op = "blur" /\ BlurField = "email"
    /\ fields.email = <<"a", "@", "b">>
    /\ errors.email = <<"Please enter a valid email address">>

\* C17: with the store available, after a navigation that changed the section
\* the stored preference is the new current section.
C17_PreferenceFollowsSection ==
    (storeOK /\ last.op \in NavOps /\ "announce:Navigated to" \in fx)
        => stored = Str(<<currentSection>>)

\* a popstate has moved the page to faq and the preference was written
W_C17 ==
    /\ last.op = "popstate" /\ "setItem" \in fx /\ storeOK
    /\ currentSection = "faq" /\ stored = Str(<<"faq">>)

\* C18: with the store unavailable a navigation to another section still
\* updates the section, the marking, the title and the announcement, writes
\* nothing and is not followed by another write attempt; startup without a
\* fragment then resolves to home.
C18_StoreFailureSwallowed ==
    [][~storeOK
         => /\ \A sec \in Sections :
                 (last'.op \in NavOps /\ TargetOf(last') = SectionTarget(sec)
                    /\ sec # currentSection)
                 => /\ currentSection' = sec
                    /\ ActiveSections' = {sec}
                    /\ title' = updateDocumentTitle(sec)
                    /\ {"title", "scrollTo", "announce:Navigated to"} \subseteq fx'
                    /\ "setItem" \notin fx' /\ "throw" \notin fx'
                    /\ stored' = stored
            /\ last'.op \notin (NavOps \cup {"initPage"})
                 => fx' \cap {"setItem", "warn", "throw"} = {}
            /\ (phase = "loading" /\ phase' = "ready" /\ hash = <<>>)
                 => currentSection' = "home"]_vars

\* showSection('#faq') with the store unavailable: the write failed, the page moved
W_C18 ==
    /\ ~storeOK /\ last.op = "showSection" /\ "warn" \in fx
    /\ currentSection = "faq" /\ title = "FAQ - Military Essentials"
    /\ stored = Str(<<"tos">>)

FragmentSection(h) ==
    IF h = <<>> THEN "home"
    ELSE IF Len(h) = 2 /\ h[1] = "#" /\ h[2] \in Sections THEN h[2]
    ELSE NoElement

\* C20: after startup, a link click or a popstate, the section the fragment
\* names (when it names one, home when absent) is the current section; a link
\* click or popstate that did not change the section requests no URL update,
\* and such a link click leaves the fragment as it was.
C20_UrlMatchesSection ==
    [][last'.op \in {"initPage", "linkClick", "popstate"}
         => /\ FragmentSection(hash') # NoElement
                 => FragmentSection(hash') = currentSection'
            /\ (last'.op # "initPage" /\ "announce:Navigated to" \notin fx')
                 => /\ fx' \cap {"pushState", "replaceState"} = {}
                    /\ last'.op = "linkClick" => hash' = hash]_vars

\* C21: however open, close and toggle interleave with the deferred 100 ms
\* callbacks, a callback never moves focus to the sidebar's close control
\* while the sidebar is closed, and never moves focus to the opening control
\* while the sidebar is open.
C21_DeferredFocusMatchesState ==
    [][last'.op = "timer"
         => /\ "focus:sidebarClose" \in fx' => isSidebarOpen'
            /\ "focus:hamburgerMenu" \in fx' => ~isSidebarOpen']_vars

\* the questions whose answer is shown
Expanded(f) == {q \in Questions : f[q] = "true"}

\* C22: after any click on a question of the FAQ accordion at most one
\* question is expanded; a click on a collapsed question leaves exactly that
\* question expanded, and a click on the expanded question leaves none expanded.
C22_Accordion ==
    [][last'.op = "faqClick"
         => \E q \in Questions :
              /\ last'.arg = Str(<<ToString(q)>>)
              /\ Cardinality(Expanded(faq')) <= 1
              /\ faq[q] # "true" => Expanded(faq') = {q}
              /\ faq[q] = "true" => Expanded(faq') = {}]_vars

\* question 2 was clicked while collapsed and is now the only one expanded
W_C22 ==
    /\ last.op = "faqClick" /\ last.arg = Str(<<"2">>)
    /\ "announce:Expanded" \in fx
    /\ Expanded(faq) = {2}

====
